---- MODULE Spec2Model ----
(***************************************************************************)
(* A model of the stream examples of the handbook:                         *)
(*   - the timer-driven readable stream `createStream`,                    *)
(*   - the byte-counting writable stream of example/writable.js,           *)
(*   - `.pipe()` with the pause / resume / drain backpressure protocol     *)
(*     as the handbook documents it,                                       *)
(*   - 'error' events on either end of a pipe,                             *)
(*   - networks of streams wired with chained and repeated pipe() calls,   *)
(*   - the scuttlebutt counter client, the event relay of the "roll your   *)
(*     own socket.io" example, the row renderer and the dnode exchange.    *)
(* Strings are sequences of one-character strings, so that buf.length is   *)
(* Len(buf).  JavaScript runs every callback to completion: an action is   *)
(* one callback (or one script), and `pc` is the position inside the timer *)
(* callback between its two emits.                                         *)
(***************************************************************************)
EXTENDS Integers, Sequences, FiniteSets

\* ------------------------------------------------------------------ bounds

\* How many chunks a readable stream may still emit after pause() was called
\* on it ("should stop emitting data but that isn't always possible").  With
\* NumChunks - 1 or more the stream never stops at all, which is createStream
\* as written: it defines no pause() and its timer keeps firing.
MaxInFlight == 4

\* How many direct calls a caller makes on the writable stream.
MaxCalls == 3

\* The longest buffer a caller hands to write() or end() directly.
MaxBufLen == 2

\* The longest sequence of chunks a readable stream produces before it ends.
MaxScript == 3

\* How many pipe() calls, and how many chunks emitted, in a network of streams.
MaxPipes == 2

MaxEmits == 2

\* For two pipes side by side: the longest run of chunks a source produces,
\* and the most chunks it still emits after pause() was called on it (none:
\* these sources stop at once).
MaxPairScript == 2

MaxPairInFlight == 0

\* The counter client: how many updates and timer ticks are followed, and
\* the largest count the network sends.
MaxGossipSteps == 4

MaxCount == 2

\* The event relay: how many websocket connections, and how many timer
\* ticks are followed on each.
MaxConns == 2

MaxRelayTicks == 2

\* The row renderer: how many lines it is written.
MaxLines == 3

\* The dnode exchange: how many clients connect to the server.
MaxClients == 3

\* ------------------------------------------------------- program constants

\* createStream ends after this many 'data' events: `if (++times === 5)`.
NumChunks == 5

\* The client asks for ten o's: cb(10, function (s) { ... }).
RepeatCount == 10

VARIABLES
    src,        \* the readable stream: times, iv (timer set), paused, inflight
    dst,        \* the writable stream: bytes, writable, reports, slow, needDrain
    pipeState,  \* the src.pipe(dst) connection: Idle, Streaming, Completed
    saturated,  \* the connection's mark: write() returned false, no 'drain' yet
    pc,         \* script: top level not yet run; loop: event loop idle;
                \* end: inside the timer callback, before emit('end')
    trace,      \* history: every event emitted and every call made, in order
    net,        \* a network of piped streams: its pipes and what each got
    pipes,      \* two pipes in one process, each with its source and sink
    gossip,     \* the scuttlebutt counter clients
    relay,      \* the websocket connections of the event relay
    rows,       \* the row renderer: lines written, chunks queued, errors
    rpc         \* the dnode exchange: each client and its server side

\* The programs of the handbook besides the pipe of the first examples.
others == <<pipes, gossip, relay, rows, rpc>>

vars == <<src, dst, pipeState, saturated, pc, trace, net, others>>

\* A program that is not run.
Off == <<>>

OthersOff ==
    /\ pipes = Off
    /\ gossip = Off
    /\ relay = Off
    /\ rows = Off
    /\ rpc = Off

\* ----------------------------------------------------------------- strings

\* String(times) for a one-digit number.
Digit(n) ==
    CASE n = 0 -> "0" [] n = 1 -> "1" [] n = 2 -> "2" [] n = 3 -> "3"
      [] n = 4 -> "4" [] n = 5 -> "5" [] n = 6 -> "6" [] n = 7 -> "7"
      [] n = 8 -> "8" [] OTHER -> "9"

\* times + '\n'
DataOf(times) == <<Digit(times), "\n">>

\* The buffers a caller may pass directly: "", "a", "aa", ... up to MaxBufLen
\* characters (the byte counter reads nothing of a buffer but its length).
Bufs == {[i \in 1..n |-> "a"] : n \in 0..MaxBufLen}

\* ------------------------------------------------------------------ history

Ev(ev, args, chunk, ok) == [ev |-> ev, args |-> args, chunk |-> chunk, ok |-> ok]

Log(w, e) == [w EXCEPT !.trace = Append(@, e)]

\* Whether an event of this kind has happened so far.
Happened(ev) == \E i \in DOMAIN trace : trace[i].ev = ev

\* ------------------------------------------------- the writable byte counter

\* var s = new Stream; s.writable = true; var bytes = 0;
\* `slow` tells whether this writable stream ever asks its sources to slow
\* down; the byte counter as written never does.
NewWritable(slow) ==
    [bytes |-> 0, writable |-> TRUE, reports |-> <<>>, slow |-> slow,
     needDrain |-> FALSE]

\* What write() may return: the byte counter returns undefined, which is not
\* false; a writable stream that wants its source to slow down returns false.
\* TRUE stands for "not false".
WriteReturns(d) == IF d.slow THEN {TRUE, FALSE} ELSE {TRUE}

\* Fault: a writable stream that drops the chunk when it reports saturation.
writeDropsWhenSaturated(d, buf, ok) ==
    [d EXCEPT !.bytes = IF ok THEN @ + Len(buf) ELSE @,
              !.needDrain = @ \/ ~ok]

\* s.write = function (buf) { bytes += buf.length };  `ok` is the value
\* returned; a stream that returned false owes a 'drain'.
write(d, buf, ok) ==
    [d EXCEPT !.bytes = @ + Len(buf), !.needDrain = @ \/ ~ok]

\* Fault: an end() that closes and reports before it counts its final chunk.
endReportsBeforeFinalChunk(d, args, buf) ==
    LET d1 == [d EXCEPT !.writable = FALSE, !.reports = Append(@, d.bytes)]
    IN  IF args > 0 THEN write(d1, buf, TRUE) ELSE d1

\* Fault: an end() that drops its final chunk.
endDropsFinalChunk(d, args, buf) ==
    [d EXCEPT !.writable = FALSE, !.reports = Append(@, d.bytes)]

\* s.end = function (buf) { if (arguments.length) s.write(buf);
\*     s.writable = false; console.log(bytes + ' bytes written') }
end(d, args, buf) ==
    LET d1 == IF args > 0 THEN write(d, buf, TRUE) ELSE d
    IN  [d1 EXCEPT !.writable = FALSE, !.reports = Append(@, d1.bytes)]

\* Fault: a destroy() that reports the total like a clean end().
destroyReports(d) ==
    [d EXCEPT !.writable = FALSE, !.reports = Append(@, d.bytes)]

\* s.destroy = function () { s.writable = false };
destroy(d) == [d EXCEPT !.writable = FALSE]

\* ------------------------------------------------------ the readable stream

\* function createStream(): times = 0 and the interval timer is set.
createStream ==
    [times |-> 0, iv |-> TRUE, paused |-> FALSE, inflight |-> 0]

\* Fault: a readable stream that ignores pause().
pauseIgnored(s, k) == s

\* pause(): the stream should stop emitting, "but that isn't always
\* possible": k chunks are already on their way.  No effect when paused.
pause(s, k) ==
    IF s.paused THEN s ELSE [s EXCEPT !.paused = TRUE, !.inflight = k]

\* resume(): the downstream is ready for more data.
resume(s) == [s EXCEPT !.paused = FALSE, !.inflight = 0]

\* Whether the stream emits on its next tick.
CanEmit(s) == ~s.paused \/ s.inflight > 0

\* ------------------------------------------------------------------- pipe

\* The world the callbacks act on, threaded through one reaction.
World ==
    [src |-> src, dst |-> dst, pipeState |-> pipeState,
     saturated |-> saturated, trace |-> trace]

Set(w) ==
    /\ src' = w.src
    /\ dst' = w.dst
    /\ pipeState' = w.pipeState
    /\ saturated' = w.saturated
    /\ trace' = w.trace
    /\ net' = net
    /\ UNCHANGED others

\* The connection's bookkeeping, as the design describes it: its state
\* (Idle -> Streaming -> Completed) and its saturated mark.
enter(w, state) == [w EXCEPT !.pipeState = state]

markSaturated(w) == [w EXCEPT !.saturated = TRUE]

clearSaturated(w) == [w EXCEPT !.saturated = FALSE]

\* src.pipe(dst): from now on the connection listens to both streams.
pipe(w) == enter(w, "Streaming")

\* Fault: a pipe that never asks the source to slow down.
ondataNoPause(w, chunk, ok, k) ==
    Log([w EXCEPT !.dst = write(@, chunk, ok)], Ev("write", 1, chunk, ok))

\* Fault: a pipe that hands every chunk to the destination twice.
ondataTwice(w, chunk, ok, k) ==
    LET w1 == Log([w EXCEPT !.dst = write(@, chunk, TRUE)],
                  Ev("write", 1, chunk, TRUE))
    IN  Log([w1 EXCEPT !.dst = write(@, chunk, ok)], Ev("write", 1, chunk, ok))

\* Fault: a pipe that takes an empty chunk for the end of the stream.
ondataEmptyEnds(w, chunk, ok, k) ==
    IF chunk = <<>>
    THEN Log(enter([w EXCEPT !.dst = end(@, 0, <<>>)], "Completed"),
             Ev("end", 0, <<>>, TRUE))
    ELSE LET w1 == Log([w EXCEPT !.dst = write(@, chunk, ok)],
                       Ev("write", 1, chunk, ok))
         IN  IF ok THEN w1
             ELSE Log(markSaturated([w1 EXCEPT !.src = pause(@, k)]),
                      Ev("pause", 0, <<>>, TRUE))

\* On 'data': dst.write(chunk); a false result "causes the pause() to be
\* called on each readable stream source".
ondata(w, chunk, ok, k) ==
    LET w1 == Log([w EXCEPT !.dst = write(@, chunk, ok)],
                  Ev("write", 1, chunk, ok))
    IN  IF ok THEN w1
        ELSE Log(markSaturated([w1 EXCEPT !.src = pause(@, k)]),
                 Ev("pause", 0, <<>>, TRUE))

\* Fault: a pipe that does not resume its source on 'drain'.
ondrainNoResume(w) == clearSaturated(w)

\* On 'drain': "causes the resume() function to be called on each readable
\* stream source".
ondrain(w) ==
    Log(clearSaturated([w EXCEPT !.src = resume(@)]),
        Ev("resume", 0, <<>>, TRUE))

\* Fault: a pipe that ends its destination twice.
onendTwice(w) ==
    LET w1 == Log([w EXCEPT !.dst = end(@, 0, <<>>)], Ev("end", 0, <<>>, TRUE))
    IN  Log(enter([w1 EXCEPT !.dst = end(@, 0, <<>>)], "Completed"),
            Ev("end", 0, <<>>, TRUE))

\* On 'end': dst.end(), and the connection is over.
onend(w) ==
    Log(enter([w EXCEPT !.dst = end(@, 0, <<>>)], "Completed"),
        Ev("end", 0, <<>>, TRUE))

\* s.emit('data', chunk): the event is logged and every listener runs.
emitData(w, chunk, ok, k) ==
    LET w1 == Log(w, Ev("data", 1, chunk, TRUE))
    IN  IF w1.pipeState = "Streaming" THEN ondata(w1, chunk, ok, k) ELSE w1

\* s.emit('end')
emitEnd(w) ==
    LET w1 == Log(w, Ev("srcEnd", 0, <<>>, TRUE))
    IN  IF w1.pipeState = "Streaming" THEN onend(w1) ELSE w1

\* Fault: a pipe that goes on listening for 'drain' when it is over.
emitDrainAlways(w) ==
    ondrain(Log([w EXCEPT !.dst.needDrain = FALSE], Ev("drain", 0, <<>>, TRUE)))

\* dst.emit('drain')
emitDrain(w) ==
    LET w1 == Log([w EXCEPT !.dst.needDrain = FALSE], Ev("drain", 0, <<>>, TRUE))
    IN  IF w1.pipeState = "Streaming" THEN ondrain(w1) ELSE w1

\* ------------------------------------------------------ networks of streams

\* Three streams: a is readable, b is a through stream (readable and
\* writable), c is writable.
Readables == {"a", "b"}

Writables == {"b", "c"}

\* What the through stream makes of a chunk: "transform input and produce
\* output".  Here it ends every chunk with a newline.
transform(chunk) == Append(chunk, "\n")

\* No pipe yet: conns are the pipes in the order they were set up, got what
\* each writable stream was handed, ret the value of the last pipe() call
\* while its expression is still being evaluated, ops what the program did.
NewNet ==
    [conns |-> <<>>, got |-> [n \in Writables |-> <<>>], ret |-> "none",
     ops |-> <<>>]

\* Fault: a pipe() that returns the stream it was called on.
pipeToReturnsSource(n, from, to) ==
    [n EXCEPT !.conns = Append(@, <<from, to>>), !.ret = from]

\* Fault: a pipe() that takes the source away from its earlier destinations.
pipeToLastWins(n, from, to) ==
    [n EXCEPT !.conns = Append(SelectSeq(@, LAMBDA c : c[1] # from),
                               <<from, to>>),
              !.ret = to]

\* from.pipe(to): to listens to from as well as whoever listened before,
\* and the call "returns the destination stream".
pipeTo(n, from, to) ==
    [n EXCEPT !.conns = Append(@, <<from, to>>), !.ret = to]

\* node.emit('data', chunk): every pipe out of node, in the order the pipes
\* were set up, hands the chunk to its destination; a through stream emits
\* what it makes of the chunk before its write() returns.
RECURSIVE emitFrom(_, _, _, _)
emitFrom(n, node, chunk, i) ==
    IF i > Len(n.conns) THEN n
    ELSE IF n.conns[i][1] # node THEN emitFrom(n, node, chunk, i + 1)
    ELSE LET to == n.conns[i][2]
             n1 == [n EXCEPT !.got[to] = Append(@, chunk)]
             n2 == IF to \in Readables
                   THEN emitFrom(n1, to, transform(chunk), 1)
                   ELSE n1
         IN  emitFrom(n2, node, chunk, i + 1)

\* ---------------------------------------------------------------- actions

Init ==
    /\ src = [times |-> 0, iv |-> FALSE, paused |-> FALSE, inflight |-> 0]
    /\ \E slow \in BOOLEAN : dst = NewWritable(slow)
    /\ pipeState = "Idle"
    /\ saturated = FALSE
    /\ pc = "script"
    /\ trace = <<>>
    /\ net = NewNet
    /\ OthersOff

\* The top level of the script: createStream().pipe(dst).
Script ==
    /\ pc = "script"
    /\ Set(pipe([World EXCEPT !.src = createStream]))
    /\ pc' = "loop"

\* Fault: a timer callback that leaves its interval running.
clearIntervalForgotten(s) == s

\* clearInterval(iv)
clearInterval(s) == [s EXCEPT !.iv = FALSE]

\* The interval callback up to its test:
\*     s.emit('data', times + '\n'); if (++times === 5) { ...
Tick ==
    /\ pc = "loop"
    /\ src.iv
    /\ CanEmit(src)
    /\ \E ok \in WriteReturns(dst), k \in 0..MaxInFlight :
         LET s0 == [src EXCEPT !.inflight = IF src.paused THEN @ - 1 ELSE @]
             w1 == emitData([World EXCEPT !.src = s0], DataOf(src.times), ok, k)
             w2 == [w1 EXCEPT !.src.times = @ + 1]
         IN  /\ Set(w2)
             /\ pc' = IF w2.src.times = NumChunks THEN "end" ELSE "loop"

\* The rest of the fifth callback:  s.emit('end'); clearInterval(iv);
TickEnd ==
    /\ pc = "end"
    /\ LET w1 == emitEnd(World)
       IN  Set([w1 EXCEPT !.src = clearInterval(@)])
    /\ pc' = "loop"

\* The writable stream is ready for more data and emits 'drain'.
Drain ==
    /\ pc = "loop"
    /\ dst.needDrain
    /\ Set(emitDrain(World))
    /\ pc' = pc

Next == Script \/ Tick \/ TickEnd \/ Drain

Spec == Init /\ [][Next]_vars

\* The same program under the scheduling node gives it: the script runs, an
\* interval timer that is set keeps firing, and a writable stream that
\* returned false emits the 'drain' it owes.
FairSpec ==
    /\ Spec
    /\ WF_vars(Script)
    /\ WF_vars(Tick)
    /\ WF_vars(TickEnd)
    /\ WF_vars(Drain)

\* ------------------------------------------------- a readable stream at large

\* The chunks a readable stream may produce: the empty string among them.
ScriptChunks == {<<>>, <<"a">>, <<"b">>}

RECURSIVE SeqsOfLen(_)
SeqsOfLen(n) ==
    IF n = 0 THEN {<<>>}
    ELSE {Append(s, c) : s \in SeqsOfLen(n - 1), c \in ScriptChunks}

\* What a readable stream produces over its life: "many 'data' events and a
\* single 'end' event".
Scripts == UNION {SeqsOfLen(n) : n \in 0..MaxScript}

\* The results of the next n write() calls.
OkSeqs(d, n) == [1..n -> WriteReturns(d)]

\* The stream has a new chunk: it joins the chunks waiting to be emitted.
produce(w, chunk) ==
    Log([w EXCEPT !.src.pending = Append(@, chunk), !.src.times = @ + 1],
        Ev("produce", 1, chunk, TRUE))

\* Fault: a stream that emits the newest waiting chunk first.
RECURSIVE pumpNewestFirst(_, _, _)
pumpNewestFirst(w, oks, k) ==
    IF w.src.pending = <<>> \/ ~CanEmit(w.src) \/ oks = <<>> THEN w
    ELSE LET n  == Len(w.src.pending)
             s0 == [w.src EXCEPT
                      !.pending = SubSeq(@, 1, n - 1),
                      !.inflight = IF w.src.paused THEN @ - 1 ELSE @]
         IN  pumpNewestFirst(
                 emitData([w EXCEPT !.src = s0], w.src.pending[n], Head(oks), k),
                 Tail(oks), k)

\* The stream emits the chunks that wait, oldest first, for as long as it
\* may emit: all of them when it is not paused, the ones already on their
\* way when it is.  oks are the results of the write() calls this causes.
RECURSIVE pump(_, _, _)
pump(w, oks, k) ==
    IF w.src.pending = <<>> \/ ~CanEmit(w.src) \/ oks = <<>> THEN w
    ELSE LET s0 == [w.src EXCEPT
                      !.pending = Tail(@),
                      !.inflight = IF w.src.paused THEN @ - 1 ELSE @]
         IN  pump(emitData([w EXCEPT !.src = s0], Head(w.src.pending),
                           Head(oks), k),
                  Tail(oks), k)

GenInit ==
    /\ \E sc \in Scripts :
         src = [times |-> 0, ended |-> FALSE, paused |-> FALSE, inflight |-> 0,
                script |-> sc, pending |-> <<>>]
    /\ \E slow \in BOOLEAN : dst = NewWritable(slow)
    /\ pipeState = "Idle"
    /\ saturated = FALSE
    /\ pc = "script"
    /\ trace = <<>>
    /\ net = NewNet
    /\ OthersOff

\* The top level of the script: readable.pipe(dst).
GenPipe ==
    /\ pc = "script"
    /\ Set(pipe(World))
    /\ pc' = "loop"

\* The stream produces its next chunk and emits what it may.
GenProduce ==
    /\ pc = "loop"
    /\ ~src.ended
    /\ src.times < Len(src.script)
    /\ \E oks \in OkSeqs(dst, Len(src.pending) + 1), k \in 0..MaxInFlight :
         Set(pump(produce(World, src.script[src.times + 1]), oks, k))
    /\ pc' = pc

\* The stream has emitted everything and emits its single 'end'.
GenEnd ==
    /\ pc = "loop"
    /\ ~src.ended
    /\ src.times = Len(src.script)
    /\ src.pending = <<>>
    /\ Set([emitEnd(World) EXCEPT !.src.ended = TRUE])
    /\ pc' = pc

\* The writable stream emits 'drain'; a resumed stream emits what waited.
GenDrain ==
    /\ pc = "loop"
    /\ dst.needDrain
    /\ \E oks \in OkSeqs(dst, Len(src.pending)), k \in 0..MaxInFlight :
         Set(pump(emitDrain(World), oks, k))
    /\ pc' = pc

GenNext == GenPipe \/ GenProduce \/ GenEnd \/ GenDrain

GenSpec == GenInit /\ [][GenNext]_vars

\* ------------------------------------------------------ errors on a pipe

\* Fault: a pipe that ends its destination cleanly when the source fails.
onerrorSourceFinalizes(w) ==
    Log(Log(enter([w EXCEPT !.dst = end(@, 0, <<>>)], "Errored"),
            Ev("end", 0, <<>>, TRUE)),
        Ev("report", 0, <<>>, TRUE))

\* On the source's 'error': dst.destroy(), the connection is Errored, and
\* the error is reported to whoever set up the pipe.
onerrorSource(w) ==
    Log(Log(enter([w EXCEPT !.dst = destroy(@)], "Errored"),
            Ev("destroy", 0, <<>>, TRUE)),
        Ev("report", 0, <<>>, TRUE))

\* Fault: a pipe that tears its source down when the destination fails.
onerrorSinkEndsSource(w, k) ==
    Log(Log(enter([w EXCEPT !.src.ended = TRUE, !.src.paused = TRUE], "Errored"),
            Ev("pause", 0, <<>>, TRUE)),
        Ev("report", 0, <<>>, TRUE))

\* On the destination's 'error': pause() on the source at once, the
\* connection is Errored, and the error is reported; the source is left
\* as it is.
onerrorSink(w, k) ==
    Log(Log(enter([w EXCEPT !.src = pause(@, k)], "Errored"),
            Ev("pause", 0, <<>>, TRUE)),
        Ev("report", 0, <<>>, TRUE))

\* src.emit('error', err)
emitSrcError(w) ==
    LET w1 == Log(w, Ev("srcError", 0, <<>>, TRUE))
    IN  IF w1.pipeState = "Streaming" THEN onerrorSource(w1) ELSE w1

\* dst.emit('error', err)
emitDstError(w, k) ==
    LET w1 == Log(w, Ev("dstError", 0, <<>>, TRUE))
    IN  IF w1.pipeState = "Streaming" THEN onerrorSink(w1, k) ELSE w1

\* The streams whose errors are followed: what the chunks hold plays no part
\* in an error, so one script of each length stands for the others.
ErrScripts == {[i \in 1..n |-> IF i % 2 = 1 THEN <<"a">> ELSE <<"b">>] :
                 n \in 0..MaxScript}

ErrInit ==
    /\ GenInit
    /\ src.script \in ErrScripts

\* The readable stream emits 'error'; the event does not by itself stop it.
SourceError ==
    /\ pc = "loop"
    /\ ~src.ended
    /\ ~Happened("srcError")
    /\ Set(emitSrcError(World))
    /\ pc' = pc

\* The writable stream emits 'error'.
SinkError ==
    /\ pc = "loop"
    /\ ~Happened("dstError")
    /\ \E k \in 0..MaxInFlight : Set(emitDstError(World, k))
    /\ pc' = pc

\* After its destination failed, the caller pipes the source, which never
\* failed, into a new writable stream.
Repipe ==
    /\ pc = "loop"
    /\ pipeState = "Errored"
    /\ ~src.ended
    /\ ~Happened("srcError")
    /\ ~Happened("pipe")
    /\ \E slow \in BOOLEAN :
         Set(Log(pipe([World EXCEPT !.dst = NewWritable(slow),
                                    !.saturated = FALSE]),
                 Ev("pipe", 0, <<>>, TRUE)))
    /\ pc' = pc

\* The caller resumes the source it has piped again.
CallResume ==
    /\ pc = "loop"
    /\ src.paused
    /\ pipeState = "Streaming"
    /\ Happened("pipe")
    /\ ~saturated
    /\ \E oks \in OkSeqs(dst, Len(src.pending)), k \in 0..MaxInFlight :
         Set(pump(Log([World EXCEPT !.src = resume(@)],
                      Ev("resume", 0, <<>>, TRUE)), oks, k))
    /\ pc' = pc

ErrNext == GenNext \/ SourceError \/ SinkError \/ Repipe \/ CallResume

ErrSpec == ErrInit /\ [][ErrNext]_vars

\* ------------------------------------------- programs that wire up a network

PipeOp(from, to, chained) ==
    [op |-> "pipe", from |-> from, to |-> to, chained |-> chained,
     chunk |-> <<>>]

EmitOp(chunk) ==
    [op |-> "emit", from |-> "a", to |-> "none", chained |-> FALSE,
     chunk |-> chunk]

NumOps(n, op) == Len(SelectSeq(n.ops, LAMBDA o : o.op = op))

NetInit ==
    /\ src = createStream
    /\ dst = NewWritable(FALSE)
    /\ pipeState = "Idle"
    /\ saturated = FALSE
    /\ pc = "script"
    /\ trace = <<>>
    /\ net = NewNet
    /\ OthersOff

\* A statement of the program: from.pipe(to);
NetPipe ==
    /\ NumOps(net, "pipe") < MaxPipes
    /\ \E from \in Readables, to \in Writables :
         /\ from # to
         /\ \A i \in DOMAIN net.conns : net.conns[i] # <<from, to>>
         /\ net' = [pipeTo(net, from, to) EXCEPT
                      !.ops = Append(@, PipeOp(from, to, FALSE))]
    /\ UNCHANGED <<src, dst, pipeState, saturated, pc, trace, others>>

\* The same expression goes on: (...).pipe(to), called on the value the
\* pipe() before it returned.
NetChainPipe ==
    /\ NumOps(net, "pipe") < MaxPipes
    /\ net.ret \in Readables
    /\ \E to \in Writables :
         /\ net.ret # to
         /\ \A i \in DOMAIN net.conns : net.conns[i] # <<net.ret, to>>
         /\ net' = [pipeTo(net, net.ret, to) EXCEPT
                      !.ops = Append(@, PipeOp("none", to, TRUE))]
    /\ UNCHANGED <<src, dst, pipeState, saturated, pc, trace, others>>

\* Later, the readable stream a emits a chunk.
NetEmit ==
    /\ NumOps(net, "emit") < MaxEmits
    /\ \E chunk \in ScriptChunks :
         net' = [emitFrom(net, "a", chunk, 1) EXCEPT
                   !.ret = "none", !.ops = Append(@, EmitOp(chunk))]
    /\ UNCHANGED <<src, dst, pipeState, saturated, pc, trace, others>>

NetNext == NetPipe \/ NetChainPipe \/ NetEmit

NetSpec == NetInit /\ [][NetNext]_vars

\* ------------------------------------------------- two pipes in one process

PairScripts == {[i \in 1..n |-> IF i % 2 = 1 THEN <<"a">> ELSE <<"b">>] :
                  n \in 0..MaxPairScript}

\* readable.pipe(writable) has just been called.
NewPipeWorld(sc, slow) ==
    pipe([src |-> [times |-> 0, ended |-> FALSE, paused |-> FALSE,
                   inflight |-> 0, script |-> sc, pending |-> <<>>],
          dst |-> NewWritable(slow), pipeState |-> "Idle",
          saturated |-> FALSE, trace |-> <<>>])

\* Fault: an 'error' event that takes the whole process down.
inPipeCrashesProcess(p, i, w) ==
    [j \in DOMAIN p |->
        IF j = i THEN w
        ELSE IF w.pipeState = "Errored" THEN enter(p[j], "Errored") ELSE p[j]]

\* Fault: a pause() that stops every stream of the process.
inPipePausesAll(p, i, w) ==
    [j \in DOMAIN p |->
        IF j = i THEN w
        ELSE [p[j] EXCEPT !.src.paused = @ \/ (w.src.paused /\ ~p[i].src.paused)]]

\* The listeners of pipe i ran: they hold their own two ends and nothing
\* else of the process.
inPipe(p, i, w) == [p EXCEPT ![i] = w]

PairFrame ==
    UNCHANGED <<src, dst, pipeState, saturated, pc, trace, net,
                gossip, relay, rows, rpc>>

PairOff ==
    /\ src = createStream
    /\ dst = NewWritable(FALSE)
    /\ pipeState = "Idle"
    /\ saturated = FALSE
    /\ pc = "script"
    /\ trace = <<>>
    /\ net = NewNet
    /\ gossip = Off
    /\ relay = Off
    /\ rows = Off
    /\ rpc = Off

\* Two pipes that share neither source nor destination.
PairInit ==
    /\ PairOff
    /\ \E s1 \in PairScripts, s2 \in PairScripts, slow1 \in BOOLEAN,
          slow2 \in BOOLEAN :
         pipes = <<NewPipeWorld(s1, slow1), NewPipeWorld(s2, slow2)>>

\* The source of pipe i emits a chunk, and what else it may emit.
PairEmit(i, chunk) ==
    /\ ~pipes[i].src.ended
    /\ \E oks \in OkSeqs(pipes[i].dst, Len(pipes[i].src.pending) + 1),
          k \in 0..MaxPairInFlight :
         pipes' = inPipe(pipes, i, pump(produce(pipes[i], chunk), oks, k))
    /\ PairFrame

PairProduce(i) ==
    /\ pipes[i].src.times < Len(pipes[i].src.script)
    /\ PairEmit(i, pipes[i].src.script[pipes[i].src.times + 1])

\* The source of pipe i emits 'end'.
PairFinish(i) ==
    /\ ~pipes[i].src.ended
    /\ pipes[i].src.pending = <<>>
    /\ pipes' = inPipe(pipes, i, [emitEnd(pipes[i]) EXCEPT !.src.ended = TRUE])
    /\ PairFrame

PairEnd(i) ==
    /\ pipes[i].src.times = Len(pipes[i].src.script)
    /\ PairFinish(i)

\* The destination of pipe i emits 'drain'.
PairDrain(i) ==
    /\ pipes[i].dst.needDrain
    /\ \E oks \in OkSeqs(pipes[i].dst, Len(pipes[i].src.pending)),
          k \in 0..MaxPairInFlight :
         pipes' = inPipe(pipes, i, pump(emitDrain(pipes[i]), oks, k))
    /\ PairFrame

\* The source of pipe i emits 'error'.
PairError(i) ==
    /\ ~pipes[i].src.ended
    /\ \A e \in DOMAIN pipes[i].trace : pipes[i].trace[e].ev # "srcError"
    /\ pipes' = inPipe(pipes, i, emitSrcError(pipes[i]))
    /\ PairFrame

PairNext ==
    \E i \in 1..2 : PairProduce(i) \/ PairEnd(i) \/ PairDrain(i) \/ PairError(i)

PairSpec == PairInit /\ [][PairNext]_vars

\* ------------------------------------------------------ a.pipe(b).pipe(a)

\* What a pipe handed to its destination.
WrittenBy(w) ==
    LET ws == SelectSeq(w.trace, LAMBDA e : e.ev = "write")
    IN  [i \in 1..Len(ws) |-> ws[i].chunk]

\* Pipe 1 carries what a emits to b, and pipe 2 what b emits to a: each
\* stream has a readable side, the source of one pipe, and a writable side,
\* the destination of the other.  a sends its requests.
DuplexSend == PairProduce(1)

\* b answers a request it was written: it emits what it makes of the chunk.
DuplexReply ==
    /\ pipes[2].src.times < Len(WrittenBy(pipes[1]))
    /\ PairEmit(2, transform(WrittenBy(pipes[1])[pipes[2].src.times + 1]))

DuplexInit ==
    /\ PairOff
    /\ \E s1 \in PairScripts, slow1 \in BOOLEAN, slow2 \in BOOLEAN :
         pipes = <<NewPipeWorld(s1, slow1), NewPipeWorld(<<>>, slow2)>>

DuplexNext ==
    \/ DuplexSend
    \/ DuplexReply
    \/ PairEnd(1)
    \/ PairFinish(2)
    \/ \E i \in 1..2 : PairDrain(i) \/ PairError(i)

DuplexSpec == DuplexInit /\ [][DuplexNext]_vars

\* ------------------------------------------- the scuttlebutt counter client

GossipKeys == {"count", "name"}

GossipEv(ev, key, value) == [ev |-> ev, key |-> key, value |-> value]

\* var m = new Model; m.on('update', cb); m.on('update', function ...):
\* gating says that cb is registered, timers counts the intervals set.
NewGossip ==
    [gating |-> TRUE, timers |-> 0, store |-> [k \in GossipKeys |-> -1],
     log |-> <<>>]

\* Fault: a listener that forgets to remove itself.
cbKeepsListening(g, key) ==
    IF key # "count" THEN g
    ELSE [g EXCEPT !.timers = @ + 1,
                   !.log = Append(@, GossipEv("setInterval", key, 0))]

\* function cb (key): returns for other keys; on 'count' removes itself
\* and sets the interval.
cb(g, key) ==
    IF key # "count" THEN g
    ELSE [g EXCEPT !.gating = FALSE,
                   !.timers = @ + 1,
                   !.log = Append(@, GossipEv("setInterval", key, 0))]

\* m.emit('update', key, value): cb if it is still registered, then the
\* listener that prints.
emitUpdate(g, key, value) ==
    LET g1 == [g EXCEPT !.log = Append(@, GossipEv("update", key, value))]
        g2 == IF g1.gating THEN cb(g1, key) ELSE g1
    IN  [g2 EXCEPT !.log = Append(@, GossipEv("print", key, value))]

\* An update from the network is applied to the model.
applyUpdate(g, key, value) ==
    emitUpdate([g EXCEPT !.store[key] = value], key, value)

\* m.set(key, value) by the client itself.
set(g, key, value) ==
    emitUpdate([g EXCEPT !.store[key] = value,
                         !.log = Append(@, GossipEv("set", key, value))],
               key, value)

GossipSteps(g) ==
    Len(SelectSeq(g.log, LAMBDA e : e.ev \in {"update"}))

GossipFrame ==
    UNCHANGED <<src, dst, pipeState, saturated, pc, trace, net,
                pipes, relay, rows, rpc>>

GossipInit ==
    /\ src = createStream
    /\ dst = NewWritable(FALSE)
    /\ pipeState = "Idle"
    /\ saturated = FALSE
    /\ pc = "script"
    /\ trace = <<>>
    /\ net = NewNet
    /\ pipes = Off
    /\ gossip = NewGossip
    /\ relay = Off
    /\ rows = Off
    /\ rpc = Off

\* The stream from the server delivers an update.
GossipRemote ==
    /\ GossipSteps(gossip) < MaxGossipSteps
    /\ \E key \in GossipKeys, value \in 0..MaxCount :
         gossip' = applyUpdate(gossip, key, value)
    /\ GossipFrame

\* One of the intervals fires:
\* m.set('count', Number(m.get('count')) + 1).
GossipTick ==
    /\ GossipSteps(gossip) < MaxGossipSteps
    /\ gossip.timers > 0
    /\ gossip' = set(gossip, "count", gossip.store["count"] + 1)
    /\ GossipFrame

GossipNext == GossipRemote \/ GossipTick

GossipSpec == GossipInit /\ [][GossipNext]_vars

\* ------------------------------------------------------- the event relay

\* The two intervals of a connection, by the event they emit, and what
\* they emit with it: ev.emit('upper', 'abc'), ev.emit('lower', 'def').
Intervals == {"upper", "lower"}

Payload(name) == IF name = "upper" THEN "abc" ELSE "def"

RelayEv(ev, arg) == [ev |-> ev, arg |-> arg]

\* No browser has connected.
NewRelay ==
    [c \in 1..MaxConns |->
        [open |-> FALSE, intervals |-> {}, ended |-> FALSE, log |-> <<>>]]

\* shoe(function (stream) { ... }): a new emitter piped into the stream,
\* and both intervals set.
onConnection(r, c) ==
    [r EXCEPT ![c].open = TRUE, ![c].intervals = Intervals]

\* An interval fires: ev.emit(name, ...) goes down the pipe to the stream.
onInterval(r, c, name) ==
    [r EXCEPT ![c].log = Append(@, RelayEv(name, Payload(name)))]

\* Fault: a handler that clears the first interval only.
onStreamEndClearsOne(r, c) ==
    [r EXCEPT ![c].ended = TRUE,
              ![c].intervals = @ \ {"upper"},
              ![c].log = Append(@, RelayEv("end", ""))]

\* stream.on('end', ...): intervals.forEach(clearInterval).
onStreamEnd(r, c) ==
    [r EXCEPT ![c].ended = TRUE,
              ![c].intervals = {},
              ![c].log = Append(@, RelayEv("end", ""))]

RelayFrame ==
    UNCHANGED <<src, dst, pipeState, saturated, pc, trace, net,
                pipes, gossip, rows, rpc>>

RelayInit ==
    /\ src = createStream
    /\ dst = NewWritable(FALSE)
    /\ pipeState = "Idle"
    /\ saturated = FALSE
    /\ pc = "script"
    /\ trace = <<>>
    /\ net = NewNet
    /\ pipes = Off
    /\ gossip = Off
    /\ relay = NewRelay
    /\ rows = Off
    /\ rpc = Off

\* A browser connects.
RelayConnect ==
    /\ \E c \in 1..MaxConns :
         /\ ~relay[c].open
         /\ relay' = onConnection(relay, c)
    /\ RelayFrame

\* An interval that is set fires.
RelayTick ==
    /\ \E c \in 1..MaxConns, name \in Intervals :
         /\ name \in relay[c].intervals
         /\ Len(SelectSeq(relay[c].log, LAMBDA e : e.ev # "end"))
               < MaxRelayTicks
         /\ relay' = onInterval(relay, c, name)
    /\ RelayFrame

\* The stream of a connection emits 'end'.
RelayEnd ==
    /\ \E c \in 1..MaxConns :
         /\ relay[c].open
         /\ ~relay[c].ended
         /\ relay' = onStreamEnd(relay, c)
    /\ RelayFrame

RelayNext == RelayConnect \/ RelayTick \/ RelayEnd

RelaySpec == RelayInit /\ [][RelayNext]_vars

\* ------------------------------------------------------- the row renderer

\* Lines the renderer may be written: two rows, the JSON text null, a
\* truncated row and an empty line.
Lines ==
    {"{\"who\":\"ann\",\"message\":\"hi\"}",
     "{\"who\":\"bob\",\"message\":\"yo\"}",
     "null",
     "{\"who\":\"ann\"",
     ""}

\* JSON.parse(line): the value, or a SyntaxError.
JSONparse(line) ==
    CASE line = "{\"who\":\"ann\",\"message\":\"hi\"}" ->
            [ok |-> TRUE, isNull |-> FALSE, who |-> "ann", message |-> "hi"]
      [] line = "{\"who\":\"bob\",\"message\":\"yo\"}" ->
            [ok |-> TRUE, isNull |-> FALSE, who |-> "bob", message |-> "yo"]
      [] line = "null" ->
            [ok |-> TRUE, isNull |-> TRUE, who |-> "", message |-> ""]
      [] OTHER ->
            [ok |-> FALSE, isNull |-> FALSE, who |-> "", message |-> ""]

\* hyperglue(html, { '.who': row.who, '.message': row.message }).outerHTML
outerHTML(row) == <<"<div>", row.who, row.message, "</div>">>

RowEv(ev, line, out) == [ev |-> ev, line |-> line, out |-> out]

\* render(): a through stream that has been written nothing.
NewRows == [log |-> <<>>, crashed |-> FALSE]

\* The function given to through(), called with each line written: a line
\* that does not parse emits 'error'; reading row.who of null throws a
\* TypeError out of write(); any other row is queued as html.
renderWrite(r, line) ==
    LET r1  == [r EXCEPT !.log = Append(@, RowEv("write", line, <<>>))]
        row == JSONparse(line)
    IN  IF ~row.ok
        THEN [r1 EXCEPT !.log = Append(@, RowEv("error", line, <<>>))]
        ELSE IF row.isNull
        THEN [r1 EXCEPT !.log = Append(@, RowEv("throw", line, <<>>)),
                        !.crashed = TRUE]
        ELSE [r1 EXCEPT !.log = Append(@, RowEv("queue", line, outerHTML(row)))]

RowsFrame ==
    UNCHANGED <<src, dst, pipeState, saturated, pc, trace, net,
                pipes, gossip, relay, rpc>>

RowsInit ==
    /\ src = createStream
    /\ dst = NewWritable(FALSE)
    /\ pipeState = "Idle"
    /\ saturated = FALSE
    /\ pc = "script"
    /\ trace = <<>>
    /\ net = NewNet
    /\ pipes = Off
    /\ gossip = Off
    /\ relay = Off
    /\ rows = NewRows
    /\ rpc = Off

\* sf.slice(-5).pipe(render()): the next line of the file is written.
RowWrite ==
    /\ ~rows.crashed
    /\ Len(SelectSeq(rows.log, LAMBDA e : e.ev = "write")) < MaxLines
    /\ \E line \in Lines : rows' = renderWrite(rows, line)
    /\ RowsFrame

RowsNext == RowWrite

RowsSpec == RowsInit /\ [][RowsNext]_vars

\* ------------------------------------------------------ the dnode exchange

\* 'beep'
Beep == <<"b", "e", "e", "p">>

Vowels == {"a", "e", "i", "o", "u"}

LowerCase == <<"a", "b", "e", "i", "o", "p", "u">>

UpperCase == <<"A", "B", "E", "I", "O", "P", "U">>

\* Array(n+1).join('o')
join(n) == [i \in 1..n |-> "o"]

\* How many vowels follow one another in s from position i on.
RECURSIVE RunLen(_, _)
RunLen(s, i) ==
    IF i > Len(s) \/ s[i] \notin Vowels THEN 0 ELSE 1 + RunLen(s, i + 1)

\* Where the first match of /[aeiou]{2,}/ begins in s, from i on: 0, none.
RECURSIVE FirstRun(_, _)
FirstRun(s, i) ==
    IF i > Len(s) THEN 0
    ELSE IF RunLen(s, i) >= 2 THEN i
    ELSE FirstRun(s, i + 1)

\* s.replace(/[aeiou]{2,}/, oo)
replace(s, oo) ==
    LET i == FirstRun(s, 1)
    IN  IF i = 0 THEN s
        ELSE SubSeq(s, 1, i - 1) \o oo \o SubSeq(s, i + RunLen(s, i), Len(s))

\* s.toUpperCase()
toUpperCase(s) ==
    [i \in 1..Len(s) |->
        IF \E k \in DOMAIN LowerCase : LowerCase[k] = s[i]
        THEN UpperCase[CHOOSE k \in DOMAIN LowerCase : LowerCase[k] = s[i]]
        ELSE s[i]]

\* A call sent to the other side: the remote function, its string and
\* number arguments (function arguments travel as references).
Msg(fn, str, n) == [fn |-> fn, str |-> str, n |-> n]

\* A client that has connected, c.pipe(d).pipe(c) on both sides: the two
\* directions of the connection, the string the server's transform was
\* called with, what the client printed, and the calls made so far.
NewExchange ==
    [c2s |-> <<>>, s2c |-> <<>>, s |-> <<>>, printed |-> <<>>,
     ended |-> FALSE, log |-> <<>>]

\* client: d.on('remote', ...) calls remote.transform('beep', f).
onRemote(x) ==
    [x EXCEPT !.c2s = Append(@, Msg("transform", Beep, 0)),
              !.log = Append(@, "transform")]

\* server: transform(s, cb) calls cb(g).
dnodeTransform(x, s) ==
    [x EXCEPT !.s = s,
              !.s2c = Append(@, Msg("f", <<>>, 0)),
              !.log = Append(@, "f")]

\* Fault: a client that ends the connection without waiting for the result.
cbFEndsEarly(x) ==
    [x EXCEPT !.c2s = Append(@, Msg("g", <<>>, RepeatCount)),
              !.ended = TRUE,
              !.log = Append(Append(@, "g"), "end")]

\* client: the callback f given to transform: function (cb) { cb(10, h) }.
cbF(x) ==
    [x EXCEPT !.c2s = Append(@, Msg("g", <<>>, RepeatCount)),
              !.log = Append(@, "g")]

\* server: the function g given to f:
\* function (n, fn) { ...; fn(s.replace(...).toUpperCase()) }.
cbG(x, n) ==
    [x EXCEPT !.s2c = Append(@, Msg("h", toUpperCase(replace(x.s, join(n))), 0)),
              !.log = Append(@, "h")]

\* client: the callback h given to g:
\* function (s) { console.log('beep:10 => ' + s); d.end() }.
cbH(x, s) ==
    [x EXCEPT !.printed = s,
              !.ended = TRUE,
              !.log = Append(Append(@, "print"), "end")]

RpcFrame ==
    UNCHANGED <<src, dst, pipeState, saturated, pc, trace, net,
                pipes, gossip, relay, rows>>

RpcInit ==
    /\ src = createStream
    /\ dst = NewWritable(FALSE)
    /\ pipeState = "Idle"
    /\ saturated = FALSE
    /\ pc = "script"
    /\ trace = <<>>
    /\ net = NewNet
    /\ pipes = Off
    /\ gossip = Off
    /\ relay = Off
    /\ rows = Off
    /\ rpc = [c \in 1..MaxClients |-> NewExchange]

\* A client's dnode emits 'remote'.
RpcRemote ==
    /\ \E c \in 1..MaxClients :
         /\ rpc[c].log = <<>>
         /\ rpc' = [rpc EXCEPT ![c] = onRemote(@)]
    /\ RpcFrame

\* The server's dnode reads the next call from a client and makes it.
RpcServer ==
    /\ \E c \in 1..MaxClients :
         /\ rpc[c].c2s # <<>>
         /\ LET m == Head(rpc[c].c2s)
                 x == [rpc[c] EXCEPT !.c2s = Tail(@)]
             IN  rpc' = [rpc EXCEPT ![c] =
                           IF m.fn = "transform" THEN dnodeTransform(x, m.str)
                           ELSE cbG(x, m.n)]
    /\ RpcFrame

\* A client's dnode reads the next call from the server and makes it.
RpcClient ==
    /\ \E c \in 1..MaxClients :
         /\ rpc[c].s2c # <<>>
         /\ ~rpc[c].ended
         /\ LET m == Head(rpc[c].s2c)
                 x == [rpc[c] EXCEPT !.s2c = Tail(@)]
             IN  rpc' = [rpc EXCEPT ![c] =
                           IF m.fn = "f" THEN cbF(x) ELSE cbH(x, m.str)]
    /\ RpcFrame

RpcNext == RpcRemote \/ RpcServer \/ RpcClient

RpcSpec == RpcInit /\ [][RpcNext]_vars

\* ------------------------------------------- direct calls on the byte counter

\* A caller invokes s.write(buf) itself.
CallWrite ==
    /\ Len(trace) < MaxCalls
    /\ \E buf \in Bufs, ok \in WriteReturns(dst) :
         /\ dst' = write(dst, buf, ok)
         /\ trace' = Append(trace, Ev("write", 1, buf, ok))
    /\ UNCHANGED <<src, pipeState, saturated, pc, net, others>>

\* A caller invokes s.end() or s.end(buf).
CallEnd ==
    /\ Len(trace) < MaxCalls
    /\ \E args \in {0, 1} :
         \E buf \in IF args = 0 THEN {<<>>} ELSE Bufs :
            /\ dst' = end(dst, args, buf)
            /\ trace' = Append(trace, Ev("end", args, buf, TRUE))
    /\ UNCHANGED <<src, pipeState, saturated, pc, net, others>>

\* A caller invokes s.destroy().
CallDestroy ==
    /\ Len(trace) < MaxCalls
    /\ dst' = destroy(dst)
    /\ trace' = Append(trace, Ev("destroy", 0, <<>>, TRUE))
    /\ UNCHANGED <<src, pipeState, saturated, pc, net, others>>

SinkNext == CallWrite \/ CallEnd \/ CallDestroy

SinkSpec == Init /\ [][SinkNext]_vars

\* ------------------------------------------------------ reading the history

Sel(ev) == SelectSeq(trace, LAMBDA e : e.ev = ev)

Chunks(events) == [i \in 1..Len(events) |-> events[i].chunk]

\* The chunks the source emitted, and the chunks handed to dst.write().
Emitted == Chunks(Sel("data"))

Written == Chunks(Sel("write"))

RECURSIVE SumLen(_)
SumLen(chunks) ==
    IF chunks = <<>> THEN 0 ELSE Len(Head(chunks)) + SumLen(Tail(chunks))

Positions(ev) == {i \in DOMAIN trace : trace[i].ev = ev}

RefusedAt == {i \in DOMAIN trace : trace[i].ev = "write" /\ ~trace[i].ok}

EverSaturated == RefusedAt # {}

\* A write() returned false and the destination has emitted no 'drain' since.
AwaitingDrain ==
    \E i \in RefusedAt : \A j \in Positions("drain") : j < i

\* What one step appended to the history.
NewEvents == SubSeq(trace', Len(trace) + 1, Len(trace'))

\* -------------------------------------------------------------------- C1

\* C1: order preservation.  As long as no write() has returned false, the
\* chunks handed to the destination's write() are exactly the chunks the
\* source emitted: same order, none missing, none twice.
C1_OrderPreserved == ~EverSaturated => Written = Emitted

\* All five chunks went through a pipe whose destination never refused.
C1_Witness ==
    /\ ~EverSaturated
    /\ pipeState = "Completed"
    /\ Written = <<DataOf(0), DataOf(1), DataOf(2), DataOf(3), DataOf(4)>>

\* -------------------------------------------------------------------- C2

\* C2 as stated: once a write() has returned false, no further chunk is
\* handed to write() until the destination has emitted 'drain'.
C2_NoWriteBeforeDrain ==
    [][AwaitingDrain => Len(Sel("write"))' = Len(Sel("write"))]_vars

\* C2, amended: once a write() has returned false the source has been paused
\* and stays paused until 'drain'; the only chunks handed to write() before
\* the 'drain' are chunks the paused source still had on their way, one per
\* emission.
C2_OnlyInFlightBeforeDrain ==
    /\ [](AwaitingDrain => src.paused)
    /\ [][(AwaitingDrain /\ Len(Sel("write"))' # Len(Sel("write")))
            => /\ src.paused
               /\ src.inflight > 0
               /\ src'.inflight < src.inflight
               /\ Len(Sel("write"))' = Len(Sel("write")) + 1]_vars

\* A chunk reached write() between a refusal and the next 'drain'.
C2_Witness ==
    \E i \in RefusedAt : \E j \in Positions("write") :
        /\ i < j
        /\ \A d \in Positions("drain") : d < i \/ d > j

\* -------------------------------------------------------------------- C3

\* C3: pause on saturation.  In the reaction to a chunk, a write() that
\* returns false is followed at once by pause() on the source, the
\* connection stays Streaming and is marked saturated; a write() that does
\* not return false is followed by no pause() and changes neither the mark
\* nor the source's paused state.
C3_PauseOnSaturation ==
    [][\A i \in DOMAIN NewEvents :
         NewEvents[i].ev = "write" =>
            IF NewEvents[i].ok
            THEN /\ \A j \in DOMAIN NewEvents : NewEvents[j].ev # "pause"
                 /\ saturated' = saturated
                 /\ src'.paused = src.paused
                 /\ pipeState' = "Streaming"
            ELSE /\ i + 1 \in DOMAIN NewEvents
                 /\ NewEvents[i + 1].ev = "pause"
                 /\ saturated'
                 /\ src'.paused
                 /\ pipeState' = "Streaming"]_vars

\* The third write() returned false and pause() followed at once.
C3_Witness ==
    /\ Len(trace) > 0
    /\ trace[Len(trace)].ev = "pause"
    /\ RefusedAt = {Len(trace) - 1}
    /\ Len(Sel("write")) = 3
    /\ saturated
    /\ src.paused
    /\ pipeState = "Streaming"

\* -------------------------------------------------------------------- C4

SinkCalls == SelectSeq(trace, LAMBDA e : e.ev \in {"write", "end"})

\* C5: completion ordering.  dst.end() is called at most once, only after
\* the source's 'end', and after the write() of every chunk emitted before
\* it; once the source has emitted 'end' the connection is Completed, end()
\* has been called exactly once and write() was called for every chunk.
C5_CompletionOrdering ==
    /\ Cardinality(Positions("end")) <= 1
    /\ \A e \in Positions("end") :
          /\ \E s \in Positions("srcEnd") : s < e
          /\ \A x \in Positions("write") : x < e
    /\ Positions("srcEnd") # {} =>
          /\ pipeState = "Completed"
          /\ Cardinality(Positions("end")) = 1
          /\ Written = Emitted
          /\ ~dst.writable
          /\ Len(dst.reports) = 1

\* Five writes, then one end().
C5_Witness ==
    /\ pipeState = "Completed"
    /\ [i \in 1..Len(SinkCalls) |-> SinkCalls[i].ev]
          = <<"write", "write", "write", "write", "write", "end">>
    /\ Written = <<DataOf(0), DataOf(1), DataOf(2), DataOf(3), DataOf(4)>>

\* -------------------------------------------------------------------- C6

\* C6: no loss under saturation.  Whatever write() returned, every chunk the
\* source emitted was handed to write() exactly once, in order, and the
\* destination counted every one of them, the refused ones included.
C6_NoLossUnderSaturation ==
    /\ Written = Emitted
    /\ dst.bytes = SumLen(Emitted)

\* A write() was refused, the destination drained, and a later chunk was
\* written after the resume().
C6_Witness ==
    \E i \in RefusedAt : \E r \in Positions("resume") :
        \E j \in Positions("write") : i < r /\ r < j

\* -------------------------------------------------------------------- C7

\* C7: source completion.  The source emits 'end' at most once, after
\* exactly five 'data' events, and nothing is emitted or written after it;
\* once its timer is cleared it has emitted 'end' exactly once.
C7_SourceCompletion ==
    /\ Cardinality(Positions("srcEnd")) <= 1
    /\ \A s \in Positions("srcEnd") :
          /\ \A x \in Positions("data") \cup Positions("write") : x < s
          /\ Len(Sel("data")) = NumChunks
    /\ (pc = "loop" /\ ~src.iv) => Cardinality(Positions("srcEnd")) = 1

\* The timer source has emitted its five chunks and 'end', and is stopped.
C7_Witness ==
    /\ Positions("srcEnd") # {}
    /\ ~src.iv
    /\ pc = "loop"
    /\ Emitted = <<DataOf(0), DataOf(1), DataOf(2), DataOf(3), DataOf(4)>>

\* -------------------------------------------------------------------- C8

\* C8: closed-state rejection.  Once the byte counter is closed (after end()
\* or destroy(), writable = false), no later call changes the byte total.
C8_ClosedRejectsWrites ==
    [][~dst.writable => dst'.bytes = dst.bytes]_vars

\* -------------------------------------------------------------------- C10

\* C10: finalize is idempotent-safe.  An end() without a final chunk that
\* follows an earlier end() neither reports the byte total again nor
\* changes it: it leaves the byte counter as it was.
C10_SecondEndSilent ==
    [][(/\ Positions("end") # {}
        /\ Len(NewEvents) = 1
        /\ NewEvents[1].ev = "end"
        /\ NewEvents[1].args = 0) => dst' = dst]_vars

\* -------------------------------------------------------------------- C11

\* C11: end(b) on an open byte counter leaves it exactly as write(b)
\* followed by end() would: the chunk is counted, then the stream is closed,
\* and the one total reported already includes the chunk.
C11_EndWithChunkIsWriteThenEnd ==
    [][(/\ dst.writable
        /\ Len(NewEvents) = 1
        /\ NewEvents[1].ev = "end"
        /\ NewEvents[1].args = 1)
         => LET b == NewEvents[1].chunk
            IN  /\ dst' = end(write(dst, b, TRUE), 0, <<>>)
                /\ dst'.bytes = dst.bytes + Len(b)
                /\ ~dst'.writable
                /\ dst'.reports = Append(dst.reports, dst.bytes + Len(b))]_vars

\* An open byte counter that had counted bytes was ended with a non-empty
\* final chunk.
C11_Witness ==
    /\ Len(trace) = 2
    /\ trace[1].ev = "write" /\ Len(trace[1].chunk) > 0
    /\ trace[2].ev = "end" /\ trace[2].args = 1 /\ Len(trace[2].chunk) > 0
    /\ dst.reports = <<dst.bytes>>

\* -------------------------------------------------------------------- C12

\* A run of write() calls closed by one end(), with or without a final chunk.
CleanRun ==
    /\ Len(trace) >= 1
    /\ trace[Len(trace)].ev = "end"
    /\ \A i \in 1..(Len(trace) - 1) : trace[i].ev = "write"

\* C12: byte-accurate total.  After any run of write(buf) calls closed by one
\* end([buf]) the byte counter has reported exactly one total: the sum of
\* the lengths of every chunk written, the final chunk of end included.
C12_ByteAccurateTotal ==
    CleanRun => dst.reports = <<SumLen(Chunks(trace))>>

\* write("aa"), write("a"), end("aa") reported 5.
C12_Witness ==
    /\ CleanRun
    /\ Len(trace) = 3
    /\ trace[3].args = 1
    /\ Len(trace[1].chunk) # Len(trace[2].chunk)
    /\ Len(trace[3].chunk) > 0
    /\ dst.reports = <<Len(trace[1].chunk) + Len(trace[2].chunk)
                         + Len(trace[3].chunk)>>

\* -------------------------------------------------------------------- C13

\* C13: destroy does not finalize.  destroy() sets writable to false and
\* changes nothing else: the byte total stays and no total is reported; the
\* byte counter has reported once per end() call and never otherwise.
C13_DestroyDoesNotFinalize ==
    /\ [](Len(dst.reports) = Cardinality(Positions("end")))
    /\ [][(Len(NewEvents) = 1 /\ NewEvents[1].ev = "destroy")
            => dst' = [dst EXCEPT !.writable = FALSE]]_vars

\* A byte counter that had counted bytes was destroyed: closed, nothing
\* reported, the total kept.
C13_Witness ==
    /\ Len(trace) = 2
    /\ trace[1].ev = "write"
    /\ trace[2].ev = "destroy"
    /\ dst.bytes > 0
    /\ ~dst.writable
    /\ dst.reports = <<>>

\* -------------------------------------------------------------------- C20

\* The pipe is over: every chunk was written, in order, and end() was called.
Done ==
    /\ pipeState = "Completed"
    /\ Written = <<DataOf(0), DataOf(1), DataOf(2), DataOf(3), DataOf(4)>>
    /\ Cardinality(Positions("end")) = 1

\* C20: eventual completion.  When the timer keeps firing and every refused
\* write() is followed by a 'drain', the pipe reaches Completed with every
\* chunk written and end() called; it does not stay paused forever.
C20_EventualCompletion == <>Done

\* The pipe completed after its source had been paused and resumed.
C20_Witness ==
    /\ Done
    /\ \E i \in RefusedAt : \E r \in Positions("resume") : i < r

\* -------------------------------------------------------------------- C17

\* C17: zero-length chunk.  An empty chunk the source emits is handed to
\* write() at once like any other chunk; end() is called only on the
\* source's 'end', never on a chunk; a source that produces one empty chunk
\* and then ends causes exactly write("") followed by end().
C17_EmptyChunkForwarded ==
    /\ \A i \in Positions("data") :
          trace[i].chunk = <<>> =>
             /\ i + 1 \in Positions("write")
             /\ trace[i + 1].chunk = <<>>
    /\ \A e \in Positions("end") : e - 1 \in Positions("srcEnd")
    /\ (src.script = <<<<>>>> /\ src.ended) =>
          /\ Len(SinkCalls) = 2
          /\ SinkCalls[1].ev = "write" /\ SinkCalls[1].chunk = <<>>
          /\ SinkCalls[2].ev = "end"

\* The source emitted one empty chunk, then 'end'.
C17_Witness ==
    /\ src.script = <<<<>>>>
    /\ src.ended
    /\ pipeState = "Completed"
    /\ Written = <<<<>>>>
    /\ dst.reports = <<0>>

\* -------------------------------------------------------------------- C19

\* C19: resume flush order.  The chunks emitted so far, followed by the
\* chunks that still wait in the paused source, are the chunks produced so
\* far in production order; every emitted chunk was written in that order.
\* So the chunks that waited during a pause are emitted, oldest first,
\* before anything produced after the resume.
C19_ResumeFlushOrder ==
    /\ Emitted \o src.pending = SubSeq(src.script, 1, src.times)
    /\ Written = Emitted

\* A chunk was produced during a pause and had to wait; after the resume it
\* and a chunk produced later were both written, in production order.
C19_Witness ==
    /\ Len(src.script) = 3
    /\ src.script[2] # src.script[3]
    /\ Written = src.script
    /\ \E p \in Positions("produce") : \E r \in Positions("resume") :
          \E q \in Positions("produce") :
             /\ p < r /\ r < q
             /\ trace[p + 1].ev # "data"
             /\ trace[r + 1].ev = "data"
             /\ trace[r + 1].chunk = trace[p].chunk

\* -------------------------------------------------------------------- C14

\* What the step in which the source of a streaming pipe emits 'error' does.
C14_Step ==
    (pipeState = "Streaming" /\ NewEvents # <<>> /\ NewEvents[1].ev = "srcError")
        => /\ [i \in 1..Len(NewEvents) |-> NewEvents[i].ev]
                = <<"srcError", "destroy", "report">>
           /\ dst' = destroy(dst)
           /\ pipeState' = "Errored"

\* Once the pipe has destroyed its destination nothing more is written to it.
C14_NoDeliveryAfter ==
    \A i \in Positions("destroy") :
        \A j \in Positions("write") \cup Positions("end") : j < i

\* C14: source error propagation.  When the source of an active pipe emits
\* 'error', the pipe calls destroy() on the destination and not end(), the
\* connection becomes Errored, the error is reported to whoever set up the
\* pipe, and no chunk reaches the destination afterwards.
C14_SourceErrorPropagation == []C14_NoDeliveryAfter /\ [][C14_Step]_vars

\* The source failed after chunks had been written, and went on to produce
\* a chunk that was emitted and not written.
C14_Witness ==
    /\ pipeState = "Errored"
    /\ \E i \in Positions("destroy") :
         /\ \E j \in Positions("write") : j < i
         /\ \E j \in Positions("data") : j > i
         /\ trace[i + 1].ev = "report"

\* -------------------------------------------------------------------- C15

\* What the step in which the destination of a streaming pipe emits 'error'
\* does: pause() comes first, and the source is otherwise left as it was.
C15_Step ==
    (pipeState = "Streaming" /\ NewEvents # <<>> /\ NewEvents[1].ev = "dstError")
        => /\ [i \in 1..Len(NewEvents) |-> NewEvents[i].ev]
                = <<"dstError", "pause", "report">>
           /\ pipeState' = "Errored"
           /\ src'.paused
           /\ src'.ended = src.ended
           /\ src'.times = src.times
           /\ src'.script = src.script
           /\ src'.pending = src.pending
           /\ dst' = dst

\* After the destination's 'error' it is handed nothing: a later write() goes
\* to the stream the source was piped into afterwards.
C15_NoDeliveryAfter ==
    \A i \in Positions("dstError") :
        \A j \in Positions("write") \cup Positions("end") :
            j > i => \E p \in Positions("pipe") : i < p /\ p < j

\* C15: sink error propagation.  When the destination of an active pipe
\* emits 'error', the pipe calls pause() on the source at once, calls
\* write() on that destination no more, and becomes Errored; the source is
\* only paused, neither ended nor torn down, and can be piped elsewhere.
C15_SinkErrorPropagation == []C15_NoDeliveryAfter /\ [][C15_Step]_vars

\* The destination failed after a write; the source was piped into a new
\* stream and resumed, and a chunk it produced afterwards was written there.
C15_Witness ==
    \E i \in Positions("dstError"), p \in Positions("pipe") :
        /\ i < p
        /\ \E j \in Positions("write") : j < i
        /\ \E q \in Positions("produce"), j \in Positions("write") :
             p < q /\ q < j

\* -------------------------------------------------------------------- C16

\* The network the same program builds when every chained .pipe(to) is
\* written as a statement of its own, on the destination of the call before.
RECURSIVE separately(_, _, _)
separately(n, ops, prev) ==
    IF ops = <<>> THEN n
    ELSE LET o == Head(ops)
         IN  IF o.op = "pipe"
             THEN separately(pipeTo(n, IF o.chained THEN prev ELSE o.from, o.to),
                             Tail(ops), o.to)
             ELSE separately(emitFrom(n, "a", o.chunk, 1), Tail(ops), "none")

Separately == separately(NewNet, net.ops, "none")

\* The program began with a.pipe(b).pipe(c).
ChainABC ==
    /\ Len(net.ops) >= 2
    /\ net.ops[1] = PipeOp("a", "b", FALSE)
    /\ net.ops[2] = PipeOp("none", "c", TRUE)

\* What a emitted once the first two pipes were set up.
EmittedAfterChain ==
    Chunks(SelectSeq(SubSeq(net.ops, 3, Len(net.ops)),
                     LAMBDA o : o.op = "emit"))

\* C16: chaining equivalence.  pipe(dst) returns dst, so a.pipe(b).pipe(c)
\* sets up exactly the pipes a -> b and b -> c, and whatever a emits, every
\* stream is handed the same chunks in the same order as when the program
\* calls a.pipe(b) and b.pipe(c) as separate statements.
C16_ChainingEquivalence ==
    /\ net.conns = Separately.conns
    /\ net.got = Separately.got
    /\ ChainABC =>
         /\ SubSeq(net.conns, 1, 2) = << <<"a", "b">>, <<"b", "c">> >>
         /\ Len(net.conns) = 2 =>
              net.got["c"] = [i \in 1..Len(EmittedAfterChain) |->
                                transform(EmittedAfterChain[i])]

\* a.pipe(b).pipe(c) was followed by two different chunks, and c got both.
C16_Witness ==
    /\ ChainABC
    /\ Len(net.got["c"]) = 2
    /\ net.got["c"][1] # net.got["c"][2]
    /\ net.got["b"] = EmittedAfterChain

\* -------------------------------------------------------------------- C18

PipesFrom(n, s) == {i \in DOMAIN n.conns : n.conns[i][1] = s}

\* C18 as stated: single consumer.  A readable stream has at most one active
\* pipe at any time.
C18_SingleConsumer ==
    \A s \in Readables : Cardinality(PipesFrom(net, s)) <= 1

LastOp == net'.ops[Len(net'.ops)]

\* A pipe() call adds a pipe and leaves the earlier ones in place; a chunk a
\* emits is handed to every stream a was piped into.
C18_Step ==
    Len(net'.ops) > Len(net.ops) =>
        IF LastOp.op = "pipe"
        THEN /\ Len(net'.conns) = Len(net.conns) + 1
             /\ SubSeq(net'.conns, 1, Len(net.conns)) = net.conns
        ELSE \A i \in PipesFrom(net, "a") :
                LET to == net.conns[i][2]
                IN  \E j \in (Len(net.got[to]) + 1)..Len(net'.got[to]) :
                       net'.got[to][j] = LastOp.chunk

\* C18, amended: several consumers.  Calling pipe() on a readable stream
\* that already has a pipe adds one and leaves the earlier pipes active, so
\* that every stream it was piped into is handed each chunk it emits.
C18_FanOut == [][C18_Step]_vars

\* a was piped into b and into c, and both were handed the chunk a emitted.
C18_Witness ==
    /\ Cardinality(PipesFrom(net, "a")) = 2
    /\ net.ops # <<>>
    /\ net.ops[Len(net.ops)].op = "emit"
    /\ net.got["b"] # <<>>
    /\ net.got["b"] = net.got["c"]

\* -------------------------------------------------------------------- C21

Final == {"Completed", "Errored", "Destroyed"}

\* The calls a pipe makes on its two streams while it runs.
PipeCalls == {"write", "pause", "resume", "end"}

\* A pipe() call in this step set up a new connection.
NewPipe == \E i \in DOMAIN NewEvents : NewEvents[i].ev = "pipe"

PositionsIn(w, ev) == {i \in DOMAIN w.trace : w.trace[i].ev = ev}

\* The pipe has paused its source for a write() that returned false and
\* has not resumed it since.
PausedByOwnSink(w) ==
    \E i \in PositionsIn(w, "pause") :
        /\ w.trace[i - 1].ev = "write" /\ ~w.trace[i - 1].ok
        /\ \A j \in PositionsIn(w, "resume") : j < i

\* Whatever one direction does (a write() that returns false, the pause()
\* that follows, 'drain', 'end', 'error'), the other direction is as before.
C23_Step ==
    \A i \in 1..2 :
        pipes'[i].trace # pipes[i].trace =>
            /\ pipes'[3 - i].src.paused = pipes[3 - i].src.paused
            /\ pipes'[3 - i].pipeState = pipes[3 - i].pipeState
            /\ pipes'[3 - i].dst = pipes[3 - i].dst
            /\ pipes'[3 - i].trace = pipes[3 - i].trace

\* A direction is paused only for its own destination, and completed only
\* by the 'end' of its own source.
C23_OwnCauses ==
    \A i \in 1..2 :
        /\ pipes[i].src.paused => PausedByOwnSink(pipes[i])
        /\ pipes[i].pipeState = "Completed" =>
              PositionsIn(pipes[i], "srcEnd") # {}
        /\ ~pipes[i].dst.writable =>
              PositionsIn(pipes[i], "end") \cup PositionsIn(pipes[i], "destroy")
                  # {}

\* C23: duplex independence.  In a.pipe(b).pipe(a) the two directions are
\* two connections; saturation, pause or completion of one neither pauses
\* nor ends the other.
C23_DuplexIndependence == []C23_OwnCauses /\ [][C23_Step]_vars

\* b refused a's first chunk and has emitted no 'drain'; a is paused, and
\* b's answer to that chunk was written to a all the same.
C23_Witness ==
    /\ pipes[1].src.paused
    /\ pipes[1].saturated
    /\ PausedByOwnSink(pipes[1])
    /\ Len(WrittenBy(pipes[1])) = 1
    /\ PositionsIn(pipes[1], "drain") = {}
    /\ ~pipes[2].src.paused
    /\ pipes[2].pipeState = "Streaming"
    /\ WrittenBy(pipes[2]) = <<transform(<<"a">>)>>

\* -------------------------------------------------------------------- C24

\* The step in which the source of one pipe emits 'error' leaves the other
\* pipe exactly as it was.
C24_Step ==
    \A i \in 1..2 :
        Len(pipes'[i].trace) > Len(pipes[i].trace)
          /\ pipes'[i].trace[Len(pipes[i].trace) + 1].ev = "srcError"
          => pipes'[3 - i] = pipes[3 - i]

\* A pipe whose own source does not fail hands its destination every chunk
\* of its source, in order, whatever became of the other pipe.
C24_DeliveredAll ==
    \A i \in 1..2 :
        pipes[i].pipeState = "Completed" =>
            WrittenBy(pipes[i]) = pipes[i].src.script

\* C24: error containment.  With two pipes that share neither source nor
\* destination, an 'error' of the source of one changes nothing in the
\* other: its state, its source's paused flag, and the chunks its
\* destination has got and will get.
C24_ErrorContainment == []C24_DeliveredAll /\ [][C24_Step]_vars

\* The source of pipe 1 failed after its first chunk; pipe 2 delivered both
\* its chunks and completed.
C24_Witness ==
    /\ pipes[1].pipeState = "Errored"
    /\ WrittenBy(pipes[1]) = <<<<"a">>>>
    /\ Len(pipes[1].src.script) = 2
    /\ pipes[2].pipeState = "Completed"
    /\ WrittenBy(pipes[2]) = << <<"a">>, <<"b">> >>

\* -------------------------------------------------------------------- C25

GossipAt(ev, key) ==
    {i \in DOMAIN gossip.log :
        gossip.log[i].ev = ev /\ gossip.log[i].key = key}

\* C25: start-up of the counter client.  The client sets 'count' itself
\* only after it has seen an 'update' for 'count'; updates for other keys
\* set no interval; and as the listener removes itself on that first
\* update, at most one interval is ever set.
C25_GatedStart ==
    /\ \A i \in GossipAt("set", "count") :
          \E j \in GossipAt("update", "count") : j < i
    /\ \A i \in DOMAIN gossip.log :
          gossip.log[i].ev = "setInterval" =>
              /\ gossip.log[i - 1] \in
                    {GossipEv("update", "count", v) : v \in 0..MaxCount}
              /\ \A j \in GossipAt("update", "count") : i - 1 <= j
    /\ gossip.timers <= 1
    /\ gossip.timers = Cardinality(GossipAt("setInterval", "count"))

\* An update for another key came first and set nothing; the first 'count'
\* update set the interval, the client set 'count' itself, and a later
\* 'count' update from the network set no second interval.
C25_Witness ==
    /\ Len(gossip.log) >= 2
    /\ gossip.log[1].ev = "update" /\ gossip.log[1].key = "name"
    /\ gossip.log[2].ev = "print"
    /\ gossip.timers = 1
    /\ \E i \in GossipAt("set", "count") :
          \E j \in GossipAt("update", "count") :
             j > i + 1 /\ gossip.log[j + 1].ev = "print"

\* -------------------------------------------------------------------- C26

\* C26: shutdown of the event relay.  Once the stream of a connection has
\* emitted 'end', both intervals of that connection are cleared, and no
\* 'upper' or 'lower' event enters that connection's pipe any more.
C26_RelayShutdown ==
    \A c \in 1..MaxConns :
        relay[c].ended =>
            /\ relay[c].intervals = {}
            /\ \A i \in DOMAIN relay[c].log :
                  relay[c].log[i].ev = "end" => i = Len(relay[c].log)

\* One connection emitted both events and ended; the other, connected too,
\* still has its two intervals and has emitted since.
C26_Witness ==
    /\ relay[1].ended
    /\ Len(relay[1].log) = 3
    /\ relay[1].log[1].ev # relay[1].log[2].ev
    /\ relay[2].open /\ ~relay[2].ended
    /\ relay[2].intervals = Intervals
    /\ relay[2].log # <<>>

\* -------------------------------------------------------------------- C27

RowsAt(ev) == {i \in DOMAIN rows.log : rows.log[i].ev = ev}

\* What the renderer did for the line written at position i of its log.
RowsFor(i) ==
    LET later == {j \in RowsAt("write") : j > i}
        stop  == IF later = {} THEN Len(rows.log) + 1
                 ELSE CHOOSE j \in later : \A k \in later : j <= k
    IN  SubSeq(rows.log, i + 1, stop - 1)

\* C27: the row renderer.  For each line written, the renderer either
\* queues exactly one chunk (the line parses as JSON) or emits exactly one
\* 'error' and queues nothing (it does not parse); the queued chunks are in
\* the order of their lines.
C27_OnePerLine ==
    \A i \in RowsAt("write") :
        LET line == rows.log[i].line
        IN  IF JSONparse(line).ok
            THEN /\ Len(RowsFor(i)) = 1
                 /\ RowsFor(i)[1].ev = "queue"
                 /\ RowsFor(i)[1].line = line
            ELSE /\ Len(RowsFor(i)) = 1
                 /\ RowsFor(i)[1].ev = "error"

\* -------------------------------------------------------------------- C28

\* The calls of one exchange, in the order the claim gives them.
ExchangeOrder == <<"transform", "f", "g", "h", "print", "end">>

\* C28: order of the callback exchange.  For every client the calls happen
\* in the order transform('beep', f), f(g), g(10, h), h(result), d.end();
\* d.end() is never called before h has got the result, which is the
\* string the handbook shows.
C28_ExchangeOrder ==
    \A c \in 1..MaxClients :
        /\ Len(rpc[c].log) <= Len(ExchangeOrder)
        /\ rpc[c].log = SubSeq(ExchangeOrder, 1, Len(rpc[c].log))
        /\ rpc[c].ended =>
              /\ rpc[c].log = ExchangeOrder
              /\ rpc[c].printed =
                    <<"B", "O", "O", "O", "O", "O", "O", "O", "O", "O", "O", "P">>

\* One client has gone through the whole exchange and ended; another has
\* called g and waits for the result.
C28_Witness ==
    /\ rpc[1].ended
    /\ rpc[1].log = ExchangeOrder
    /\ rpc[2].log = <<"transform", "f", "g">>
    /\ ~rpc[2].ended

====
